---- MODULE Spec2Model ----
(***************************************************************************)
(* hget: the download engine.  The model follows main.go (Execute and the  *)
(* resume branch of main), http.go (NewHTTPDownloader, partCalculate, Do,  *)
(* handleCompletedPart, downloadPart, buildRequestForPart), state.go       *)
(* (Save, Read), resume.go (Resume) and, for the joiner, whose source is   *)
(* not part of the tree, the specification's section 4.H.                  *)
(*                                                                         *)
(* The resource is the byte sequence <<0, 1, ..., L-1>>: byte i is named   *)
(* by its offset, so two files are equal only if they hold the same bytes  *)
(* in the same order.                                                      *)
(***************************************************************************)
EXTENDS Integers, Sequences, FiniteSets, TLC

\* ------------------------------------------------------------------ bounds
MaxLen == 4         \* resource lengths 1..MaxLen
MaxConn == 2        \* values of the -n flag 1..MaxConn
MaxSignals == 2     \* signals delivered over the whole session
MaxErrors == 1      \* transport errors injected over the whole session
MaxRuns == 3        \* Execute runs of one task (1 fresh + resumed ones)
MaxPar == 6         \* the planner on its own: parallelism 1..MaxPar
MaxPlanLen == 12    \* the planner on its own: lengths 1..MaxPlanLen
MaxStr == 1         \* the state store on its own: URL names of 1..MaxStr units
MaxParts == 2       \* the state store on its own: States of 0..MaxParts parts
MaxReaders == 2     \* the limiter on its own: workers sharing it
MaxBurst == 2       \* the limiter on its own: rates (and bursts) 1..MaxBurst
MaxRead == 3        \* the limiter on its own: a read returns 1..MaxRead bytes
MaxBody == 3        \* the limiter on its own: bytes of each worker's body
MaxJoinIdx == 10    \* the joiner on its own: part indexes 0..MaxJoinIdx
MaxJoinFiles == 3   \* the joiner on its own: lists of 0..MaxJoinFiles paths
MaxPath == 4        \* the naming on its own: escaped paths of 0..MaxPath units

\* --------------------------------------------------------------- constants
PadWidth == 6       \* "%s.part%06d"
ChanOne == 1        \* make(chan error, 1), make(chan Part, 1), make(chan os.Signal, 1)

\* A string is a sequence of units: a unit is a Unicode code point, or
\* InvalidByte, a byte that is not part of any valid UTF-8 sequence.  The
\* units 0..9 of a part's name are its decimal digits.
URL == <<117>>      \* the task's URL in the download engine
Folder == "folder"  \* FolderOf(url): the task directory

\* ------------------------------------------------------------ pure helpers
Min(a, b) == IF a < b THEN a ELSE b

RECURSIVE Pow10(_)
Pow10(k) == IF k = 0 THEN 1 ELSE 10 * Pow10(k - 1)

\* fmt.Sprintf("%d", j) in place of "%06d": the digits of j without the
\* padding.  -1 marks the positions after the end of the string, so that a
\* prefix sorts before its extensions.
Pad6Unpadded(j) ==
    LET nd == CHOOSE d \in 1..PadWidth :
                  /\ j < Pow10(d)
                  /\ \A e \in 1..(d - 1) : j >= Pow10(e)
    IN  [k \in 1..PadWidth |->
            IF k <= nd THEN (j \div Pow10(nd - k)) % 10 ELSE -1]

\* fmt.Sprintf("%06d", j): the decimal digits of j, zero-padded to six.
Pad6(j) == [k \in 1..PadWidth |-> (j \div Pow10(PadWidth - k)) % 10]

\* filepath.Join(folder, fname): a path is its directory and its base name.
PartPath(j) == [dir |-> Folder, base |-> Pad6(j)]

\* Lexicographic order of two strings of equal length (sort.Strings on paths
\* of one directory).
LexLess(a, b) ==
    \E k \in 1..Len(a) :
        /\ a[k] < b[k]
        /\ \A m \in 1..(k - 1) : a[m] = b[m]

PathLess(p, q) == LexLess(p.base, q.base)

\* The server's resource.
Content(len) == [k \in 1..len |-> k - 1]

\* Bytes lo..hi (offsets, inclusive) of the resource; empty when lo > hi.
Slice(lo, hi) == IF lo > hi THEN << >> ELSE [k \in 1..(hi - lo + 1) |-> lo + k - 1]

\* ----------------------------------------------------------------- planner
\* The planner with the last part ending at len - 1 instead of the sentinel.
partCalculateLastMinusOne(par, len) ==
    [j \in 1..par |->
        [Index |-> j - 1, URL |-> URL, Path |-> PartPath(j - 1),
         RangeFrom |-> (len \div par) * (j - 1),
         RangeTo |-> IF j - 1 < par - 1 THEN (len \div par) * j - 1 ELSE len - 1]]

\* The planner without the "- 1" of an intermediate part's end.
partCalculateOverlap(par, len) ==
    [j \in 1..par |->
        [Index |-> j - 1, URL |-> URL, Path |-> PartPath(j - 1),
         RangeFrom |-> (len \div par) * (j - 1),
         RangeTo |-> IF j - 1 < par - 1 THEN (len \div par) * j ELSE len]]

partCalculate(par, len) ==
    [j \in 1..par |->
        [Index |-> j - 1, URL |-> URL, Path |-> PartPath(j - 1),
         RangeFrom |-> (len \div par) * (j - 1),
         RangeTo |-> IF j - 1 < par - 1 THEN (len \div par) * j - 1 ELSE len]]

\* ------------------------------------------------------------------ prober
\* What the two probe requests returned.  A header value of 0 stands for a
\* header that is absent, does not parse, or is not positive.
ProbeResponses ==
    [headOK : BOOLEAN, headAR : BOOLEAN, headCL : 0..MaxLen,
     getOK : BOOLEAN, get206 : BOOLEAN, crTotal : 0..MaxLen, getCL : 0..MaxLen]

\* rangeSupported and lenValue after the HEAD probe.
HeadRange(r) == r.headOK /\ r.headAR
HeadLen(r) == IF r.headOK /\ r.headCL > 0 THEN r.headCL ELSE 0

\* Whether the range GET probe is issued.
NeedsGetProbe(r) == ~HeadRange(r) \/ HeadLen(r) = 0

\* The probes with a 206 answer to the range GET not taken as range support.
ProbedRangeHeadOnly(r) == HeadRange(r)

\* rangeSupported and lenValue after both probes.
ProbedRange(r) ==
    IF NeedsGetProbe(r) /\ r.getOK THEN r.get206 ELSE HeadRange(r)

ProbedLen(r) ==
    IF NeedsGetProbe(r) /\ r.getOK
    THEN IF r.get206
         THEN IF r.crTotal > 0 THEN r.crTotal ELSE HeadLen(r)
         ELSE IF r.getCL > 0 THEN r.getCL ELSE HeadLen(r)
    ELSE HeadLen(r)

\* The prober without the fallback to one connection when no length was
\* learned.
NewHTTPDownloaderKeepPar(r, par) ==
    LET rs == ProbedRange(r)
        lv == ProbedLen(r)
        p1 == IF ~rs THEN 1 ELSE par
        p2 == p1
        ln == IF lv = 0 THEN 1 ELSE lv
    IN  [par |-> p2, len |-> ln, resumable |-> (lv # 0),
         parts |-> partCalculate(p2, ln)]

NewHTTPDownloader(r, par) ==
    LET rs == ProbedRange(r)
        lv == ProbedLen(r)
        p1 == IF ~rs THEN 1 ELSE par
        p2 == IF lv = 0 THEN 1 ELSE p1
        ln == IF lv = 0 THEN 1 ELSE lv
    IN  [par |-> p2, len |-> ln, resumable |-> (lv # 0),
         parts |-> partCalculate(p2, ln)]

\* ------------------------------------------------------------- environment
\* The servers of the end-to-end tests: whether GET honours Range, and which
\* headers HEAD and GET carry.
Servers ==
    [supportRange : BOOLEAN, headAR : BOOLEAN, headCL : BOOLEAN, getCL : BOOLEAN]

\* What such a server answers to the two probe requests for a resource of
\* length len >= 1.
ProbeOf(srv, len) ==
    [headOK |-> TRUE,
     headAR |-> srv.headAR /\ srv.supportRange,
     headCL |-> IF srv.headCL THEN len ELSE 0,
     getOK |-> TRUE,
     get206 |-> srv.supportRange,
     crTotal |-> IF srv.supportRange THEN len ELSE 0,
     getCL |-> IF srv.getCL THEN (IF srv.supportRange THEN 1 ELSE len) ELSE 0]

\* A request's Range header: none, "bytes=a-b" or "bytes=a-".
NoRange == [kind |-> "none", from |-> 0, to |-> 0]

\* The body the server sends for a request: the whole resource without a
\* Range header or without range support; else bytes start..min(end, len-1),
\* and nothing (416) when start > end.
ServerBody(range, ranged, len) ==
    IF range.kind = "none" \/ ~ranged
    THEN Content(len)
    ELSE LET end == IF range.kind = "open" THEN len - 1 ELSE Min(range.to, len - 1)
         IN  Slice(range.from, end)

\* ----------------------------------------------------------- part requests
\* buildRequestForPart: the Range header for a part, given the downloader's
\* par and len.
buildRequestForPart(d, part) ==
    IF d.par > 1
    THEN IF part.RangeTo # d.len
         THEN [kind |-> "closed", from |-> part.RangeFrom, to |-> part.RangeTo]
         ELSE [kind |-> "open", from |-> part.RangeFrom, to |-> 0]
    ELSE NoRange

\* Do's test with < in place of <=.
IsCompletedPartStrict(p) == p.RangeTo < p.RangeFrom

\* Do's test for a part that needs no download.
IsCompletedPart(p) == p.RangeTo <= p.RangeFrom

\* The Part a worker reports on the state channel.  The code adds the local
\* counter `current`, which is set to 0 and never changed.
CurrentCounter == 0

ReportedPart(part) ==
    [Index |-> part.Index, URL |-> URL, Path |-> part.Path,
     RangeFrom |-> part.RangeFrom + CurrentCounter, RangeTo |-> part.RangeTo]

\* -------------------------------------------------------------------- JSON
InvalidByte == 255          \* a byte outside valid UTF-8
ReplacementRune == 65533    \* U+FFFD
HTMLUnits == {38, 60, 62}   \* & < > : written as \u0026 \u003c \u003e

\* json.Marshal of a string, unit by unit: a character is written as it is
\* or as a \uXXXX escape; an invalid byte is written as \ufffd.
EncodeUnit(u) ==
    IF u = InvalidByte
    THEN [esc |-> TRUE, cp |-> ReplacementRune]
    ELSE [esc |-> (u \in HTMLUnits), cp |-> u]

EncodeString(str) == [k \in 1..Len(str) |-> EncodeUnit(str[k])]

\* json.Unmarshal of a string: every character or escape gives its code
\* point.
DecodeString(js) == [k \in 1..Len(js) |-> js[k].cp]

\* An int64 in decimal: a sign and the digits, most significant first.
RECURSIVE Digits(_)
Digits(n) == IF n < 10 THEN <<n>> ELSE Append(Digits(n \div 10), n % 10)

FormatInt(n) == [neg |-> (n < 0), digits |-> Digits(IF n < 0 THEN 0 - n ELSE n)]

RECURSIVE DigitsValue(_)
DigitsValue(ds) ==
    IF ds = << >>
    THEN 0
    ELSE 10 * DigitsValue(SubSeq(ds, 1, Len(ds) - 1)) + ds[Len(ds)]

ParseInt(t) == IF t.neg THEN 0 - DigitsValue(t.digits) ELSE DigitsValue(t.digits)

\* json.Marshal / json.Unmarshal of a Part and of a State.  A path is kept
\* as its directory and its encoded base name.
MarshalPart(p) ==
    [Index |-> FormatInt(p.Index), URL |-> EncodeString(p.URL),
     Path |-> [dir |-> p.Path.dir, base |-> EncodeString(p.Path.base)],
     RangeFrom |-> FormatInt(p.RangeFrom), RangeTo |-> FormatInt(p.RangeTo)]

UnmarshalPart(j) ==
    [Index |-> ParseInt(j.Index), URL |-> DecodeString(j.URL),
     Path |-> [dir |-> j.Path.dir, base |-> DecodeString(j.Path.base)],
     RangeFrom |-> ParseInt(j.RangeFrom), RangeTo |-> ParseInt(j.RangeTo)]

Marshal(st) ==
    [URL |-> EncodeString(st.URL),
     Parts |-> [i \in 1..Len(st.Parts) |-> MarshalPart(st.Parts[i])]]

Unmarshal(j) ==
    [URL |-> DecodeString(j.URL),
     Parts |-> [i \in 1..Len(j.Parts) |-> UnmarshalPart(j.Parts[i])]]

\* ------------------------------------------------------------- state store
\* A State value, and state.json when it does not exist.
ZeroState == [URL |-> << >>, Parts |-> << >>]
NoState == [exists |-> FALSE, json |-> Marshal(ZeroState)]

\* Read with a missing state.json taken for an empty manifest.
ReadZeroOnMissing(file) ==
    [ok |-> TRUE, state |-> IF file.exists THEN Unmarshal(file.json) ELSE ZeroState]

\* Read(task): the error of os.ReadFile, or the unmarshalled State.
Read(file) ==
    IF file.exists
    THEN [ok |-> TRUE, state |-> Unmarshal(file.json)]
    ELSE [ok |-> FALSE, state |-> ZeroState]

\* Save's rename target: filepath.Join(folder, filepath.Base(part.Path)).
RenameTarget(p) == [dir |-> Folder, base |-> p.base]

\* os.Rename(old, new) on the set of existing files and their contents.
RenameOK(old, ex) == old \in ex

\* A rename that leaves the old name in place.
RenameExCopy(old, new, ex) == ex \cup {new}

RenameEx(old, new, ex) == (ex \ {old}) \cup {new}

RenameData(old, new, data) ==
    IF old = new THEN data ELSE [data EXCEPT ![new] = data[old], ![old] = << >>]

\* Save's loop over the parts from position i on: stops at the first rename
\* that fails.
RECURSIVE SaveLoop(_, _, _, _)
SaveLoop(ps, i, ex, data) ==
    IF i > Len(ps)
    THEN [ok |-> TRUE, ex |-> ex, data |-> data]
    ELSE IF ~RenameOK(ps[i].Path, ex)
         THEN [ok |-> FALSE, ex |-> ex, data |-> data]
         ELSE SaveLoop(ps, i + 1,
                       RenameEx(ps[i].Path, RenameTarget(ps[i].Path), ex),
                       RenameData(ps[i].Path, RenameTarget(ps[i].Path), data))

\* Save(): the disk after it, and whether state.json was written.
Save(ps, ex, data) == SaveLoop(ps, 1, ex, data)

\* ------------------------------------------------------------------ resume
\* Resume's adjustment without the cap at the part's end.
ResumePartNoCap(part, ex, data) ==
    IF part.Path \in ex
    THEN [part EXCEPT !.RangeFrom = part.RangeFrom + Len(data[part.Path])]
    ELSE part

\* Resume's adjustment of one part, given the files on disk.
ResumePart(part, ex, data) ==
    IF part.Path \in ex
    THEN [part EXCEPT !.RangeFrom = Min(part.RangeFrom + Len(data[part.Path]), part.RangeTo)]
    ELSE part

Resume(st, ex, data) ==
    [st EXCEPT !.Parts = [i \in 1..Len(st.Parts) |-> ResumePart(st.Parts[i], ex, data)]]

\* ------------------------------------------------------------------ joiner
RECURSIVE ConcatFrom(_, _, _, _)
\* The bytes of the sources ps[i..], in order, up to the first one that
\* cannot be opened.
ConcatFrom(ps, i, ex, data) ==
    IF i > Len(ps) \/ ps[i] \notin ex
    THEN << >>
    ELSE data[ps[i]] \o ConcatFrom(ps, i + 1, ex, data)

\* JoinFile(files, dest): sort the paths, truncate dest, stream every source
\* into it; fails if a source cannot be opened, leaving what was written.
JoinFile(fs, ex, data) ==
    LET sorted == SortSeq(fs, PathLess)
    IN  [ok |-> \A i \in 1..Len(sorted) : sorted[i] \in ex,
         out |-> ConcatFrom(sorted, 1, ex, data)]

\* ------------------------------------------------------------- coordinator
\* Variants of the done event's decision, as a slip in Execute would make
\* them: joining without looking at isInterrupted, saving without looking at
\* resumable, and returning without the join.
DoneBranchIgnoreInterrupt(interrupted, resumable) == "join"

DoneBranchIgnoreResumable(interrupted, resumable) ==
    IF interrupted THEN "save" ELSE "join"

DoneBranchSkipJoin(interrupted, resumable) ==
    IF interrupted
    THEN IF resumable THEN "save" ELSE "silent"
    ELSE "silent"

\* What Execute does on the done event.
DoneBranch(interrupted, resumable) ==
    IF interrupted
    THEN IF resumable THEN "save" ELSE "silent"
    ELSE "join"

\* ------------------------------------------------------------------- state
VARIABLES
    resLen,         \* length L of the server's resource (0 before the first run)
    ranged,         \* whether the server honours Range on GET
    partExists,     \* the part files on disk (paths)
    partData,       \* their contents
    stateJson,      \* state.json: [exists, json]
    taskDir,        \* whether the task directory exists
    output,         \* the final output file: [exists, data]
    run,            \* number of Execute runs started
    phase,          \* "idle", "running", "returned", "panicked", "resumeFailed"
    conn,           \* Execute's conn argument
    downloader,     \* [par, len, resumable, parts]
    doIdx,          \* Do: position of the next part of its loop
    wpc,            \* per part: the worker's position
    listener,       \* per part: the goroutine waiting on interruptChan
    copied,         \* per part: bytes of the body copied in this run
    signalChan, doneChan, fileChan, errorChan, stateChan, interruptChan,
    coordPc,        \* "select" or "pushing" (inside the signal case's loop)
    pushLeft,       \* tokens the signal case has still to push
    isInterrupted, files, parts,
    sigLeft, errLeft,       \* what the environment may still inject
    runSignals, runErrors,  \* signals delivered / errors reported in this run
    joinCalls, removeCalls, \* JoinFile / RemoveAll calls of this run
    planPar,        \* parallelism of the fresh plan
    probeIn, probeOut,      \* the prober on its own: responses and result
    planIn, planOut,        \* the planner on its own: arguments and result
    stIn, stOut,            \* the state store on its own: the State saved,
                            \* and what Read returned
    joinIn, joinOut,        \* the joiner on its own: the list and the result
    folderIn,               \* the naming on its own: the URL's escaped path
    folderOut, taskOut,     \* what FolderOf and TaskFromURL returned
    dirs,                   \* the directories under the user's home
    limiter,                \* the shared limiter: [burst, tokens, granted]
    readers,                \* per worker: its rateLimitedReader's position
    delivered,              \* bytes the readers returned to io.Copy
    cfgIn, cfgOut           \* Execute's settings and what a worker does with them

disk == <<partExists, partData, stateJson, taskDir, output>>
env == <<resLen, ranged, sigLeft, errLeft>>
session == <<run, phase, conn, downloader, planPar>>
workers == <<wpc, listener, copied>>
chans == <<signalChan, doneChan, fileChan, errorChan, stateChan, interruptChan>>
coord == <<coordPc, pushLeft, isInterrupted, files, parts>>
hist == <<runSignals, runErrors, joinCalls, removeCalls>>
side == <<joinIn, joinOut, folderIn, folderOut, taskOut, dirs, limiter,
          readers, delivered, cfgIn, cfgOut>>
probe == <<probeIn, probeOut, planIn, planOut, stIn, stOut, side>>
vars == <<disk, env, session, doIdx, workers, chans, coord, hist, probe>>

Slots == 1..MaxConn
AllPaths == {PartPath(j - 1) : j \in Slots}
NoProbe == [headOK |-> FALSE, headAR |-> FALSE, headCL |-> 0,
            getOK |-> FALSE, get206 |-> FALSE, crTotal |-> 0, getCL |-> 0]
NoDownloader == [par |-> 0, len |-> 0, resumable |-> FALSE, parts |-> << >>]
NoPlanIn == [par |-> 0, len |-> 0]
NoRead == [ok |-> FALSE, state |-> ZeroState]
NoJoin == [ok |-> FALSE, out |-> << >>]
NoFolder == [ok |-> FALSE, path |-> << >>]
NoLimiter == [burst |-> 0, tokens |-> 0, granted |-> 0]
Readers == 1..MaxReaders
NoReader == [pc |-> "done", n |-> 0, left |-> 0]

\* The joiner, the naming and the limiter before they are used.
\* Execute's settings before any are given, and a worker that has not acted.
NoProxy == ""
NoSettings == [resumed |-> FALSE, rate |-> 0, proxy |-> NoProxy, skipTLS |-> FALSE,
               par |-> 0, len |-> 0]
NoClient == [proxy |-> NoProxy, skipTLS |-> FALSE]
NoConfig == [d |-> [par |-> 0, len |-> 0, rate |-> 0, limited |-> FALSE,
                    proxy |-> NoProxy, skipTLS |-> FALSE],
             part |-> 0, client |-> NoClient, range |-> NoRange, mode |-> "none"]

SideInit ==
    /\ joinIn = << >> /\ joinOut = NoJoin
    /\ folderIn = << >> /\ folderOut = NoFolder /\ taskOut = << >>
    /\ dirs = {}
    /\ limiter = NoLimiter /\ readers = [w \in Readers |-> NoReader]
    /\ delivered = 0
    /\ cfgIn = NoSettings /\ cfgOut = NoConfig

Init ==
    /\ resLen = 0 /\ ranged = FALSE
    /\ partExists = {} /\ partData = [p \in AllPaths |-> << >>]
    /\ stateJson = NoState /\ taskDir = FALSE
    /\ output = [exists |-> FALSE, data |-> << >>]
    /\ run = 0 /\ phase = "idle" /\ conn = 0 /\ downloader = NoDownloader
    /\ planPar = 0
    /\ doIdx = 1
    /\ wpc = [i \in Slots |-> "idle"]
    /\ listener = [i \in Slots |-> "none"]
    /\ copied = [i \in Slots |-> 0]
    /\ signalChan = 0 /\ doneChan = 0 /\ fileChan = << >> /\ errorChan = 0
    /\ stateChan = << >> /\ interruptChan = 0
    /\ coordPc = "select" /\ pushLeft = 0
    /\ isInterrupted = FALSE /\ files = << >> /\ parts = << >>
    /\ sigLeft = MaxSignals /\ errLeft = MaxErrors
    /\ runSignals = 0 /\ runErrors = 0 /\ joinCalls = 0 /\ removeCalls = 0
    /\ probeIn = NoProbe /\ probeOut = NoDownloader
    /\ planIn = NoPlanIn /\ planOut = << >>
    /\ stIn = ZeroState /\ stOut = NoRead
    /\ SideInit

\* Execute up to `go downloader.Do(...)`: fresh channels, empty lists.
RunStart(c, d) ==
    /\ run' = run + 1 /\ phase' = "running" /\ conn' = c /\ downloader' = d
    /\ doIdx' = 1
    /\ wpc' = [i \in Slots |-> "idle"]
    /\ listener' = [i \in Slots |-> "none"]
    /\ copied' = [i \in Slots |-> 0]
    /\ signalChan' = 0 /\ doneChan' = 0 /\ fileChan' = << >> /\ errorChan' = 0
    /\ stateChan' = << >> /\ interruptChan' = 0
    /\ coordPc' = "select" /\ pushLeft' = 0
    /\ isInterrupted' = FALSE /\ files' = << >> /\ parts' = << >>
    /\ runSignals' = 0 /\ runErrors' = 0 /\ joinCalls' = 0 /\ removeCalls' = 0

\* main with a positional URL: Execute(url, nil, conn, ...) against a server.
ExecuteFresh ==
    /\ phase = "idle"
    /\ \E len \in 1..MaxLen, c \in 1..MaxConn, srv \in Servers :
        /\ resLen' = len /\ ranged' = srv.supportRange
        /\ RunStart(c, NewHTTPDownloader(ProbeOf(srv, len), c))
        /\ planPar' = NewHTTPDownloader(ProbeOf(srv, len), c).par
    /\ taskDir' = TRUE      \* partCalculate: MkdirIfNotExist(folder)
    /\ UNCHANGED <<partExists, partData, stateJson, output, sigLeft, errLeft, probe>>

\* main with -resume and no state.json to read: Resume returns Read's error
\* and FatalCheck ends the process.
MainResumeMissing ==
    /\ phase \in {"idle", "returned", "panicked"}
    /\ ~Read(stateJson).ok
    /\ phase' = "resumeFailed"
    /\ UNCHANGED <<disk, env, run, conn, downloader, planPar, doIdx, workers,
                   chans, coord, hist, probe>>

\* The resume branch with Resume writing the adjusted State back to
\* state.json.
MainResumeSavesState ==
    /\ phase \in {"returned", "panicked"}
    /\ run < MaxRuns
    /\ Read(stateJson).ok
    /\ \E c \in 1..MaxConn :
        LET st == Resume(Read(stateJson).state, partExists, partData)
        IN  /\ RunStart(c, [par |-> Len(st.Parts), len |-> 0, resumable |-> TRUE,
                            parts |-> st.Parts])
            /\ stateJson' = [exists |-> TRUE, json |-> Marshal(st)]
    /\ UNCHANGED <<partExists, partData, taskDir, output, env, planPar, probe>>

\* main with -resume: Resume(task), then Execute(state.URL, state, conn, ...).
MainResume ==
    /\ phase \in {"returned", "panicked"}
    /\ run < MaxRuns
    /\ Read(stateJson).ok
    /\ \E c \in 1..MaxConn :
        LET st == Resume(Read(stateJson).state, partExists, partData)
        IN  RunStart(c, [par |-> Len(st.Parts), len |-> 0, resumable |-> TRUE,
                         parts |-> st.Parts])
    /\ UNCHANGED <<disk, env, planPar, probe>>

\* ---------------------------------------------------------------------- Do
NParts == Len(downloader.parts)
PartOf(i) == downloader.parts[i]

\* The body a worker's request is answered with.
Body(i) == ServerBody(buildRequestForPart(downloader, PartOf(i)), ranged, resLen)

\* Do's loop, a part that needs no download: handleCompletedPart sends its
\* state (and no path) and the loop goes on.
DoHandleCompleted ==
    /\ phase = "running" /\ doIdx \in 1..NParts
    /\ IsCompletedPart(PartOf(doIdx))
    /\ Len(stateChan) < ChanOne
    /\ stateChan' = Append(stateChan, ReportedPart(PartOf(doIdx)))
    /\ doIdx' = doIdx + 1
    /\ UNCHANGED <<disk, env, session, workers, signalChan, doneChan, fileChan,
                   errorChan, interruptChan, coord, hist, probe>>

\* Do's loop, any other part: wg.Add(1); go d.downloadPart(...), which starts
\* the goroutine that waits on interruptChan.
DoLaunch ==
    /\ phase = "running" /\ doIdx \in 1..NParts
    /\ ~IsCompletedPart(PartOf(doIdx))
    /\ wpc' = [wpc EXCEPT ![doIdx] = "start"]
    /\ listener' = [listener EXCEPT ![doIdx] = "waiting"]
    /\ doIdx' = doIdx + 1
    /\ UNCHANGED <<disk, env, session, copied, chans, coord, hist, probe>>

\* wg.Wait(); doneChan <- true.  doIdx = 0 afterwards: Do has ended.
DoDone ==
    /\ phase = "running" /\ doIdx = NParts + 1
    /\ \A i \in Slots : wpc[i] \in {"idle", "exited"}
    /\ doneChan' = doneChan + 1
    /\ doIdx' = 0
    /\ UNCHANGED <<disk, env, session, workers, signalChan, fileChan, errorChan,
                   stateChan, interruptChan, coord, hist, probe>>

\* ----------------------------------------------------------------- workers
\* The goroutine of downloadPart: <-interruptChan; cancel().
ListenerFire(i) ==
    /\ phase = "running" /\ listener[i] = "waiting"
    /\ interruptChan > 0
    /\ interruptChan' = interruptChan - 1
    /\ listener' = [listener EXCEPT ![i] = "fired"]
    /\ UNCHANGED <<disk, env, session, doIdx, wpc, copied, signalChan, doneChan,
                   fileChan, errorChan, stateChan, coord, hist, probe>>

\* client.Do(req) returns a response; the part file is opened with O_CREATE
\* and O_APPEND and the copy goroutine starts.
WorkerResponse(i) ==
    /\ phase = "running" /\ wpc[i] = "start"
    /\ listener[i] # "fired"
    /\ partExists' = partExists \cup {PartOf(i).Path}
    /\ wpc' = [wpc EXCEPT ![i] = "copy"]
    /\ UNCHANGED <<partData, stateJson, taskDir, output, env, session, doIdx,
                   listener, copied, chans, coord, hist, probe>>

\* client.Do(req) fails because the context is cancelled: no file is opened,
\* the unchanged part goes to the state channel and the worker returns.
WorkerRequestCancelled(i) ==
    /\ phase = "running" /\ wpc[i] = "start"
    /\ listener[i] = "fired"
    /\ Len(stateChan) < ChanOne
    /\ stateChan' = Append(stateChan, ReportedPart(PartOf(i)))
    /\ wpc' = [wpc EXCEPT ![i] = "exited"]
    /\ UNCHANGED <<disk, env, session, doIdx, listener, copied, signalChan,
                   doneChan, fileChan, errorChan, interruptChan, coord, hist, probe>>

\* The transport-error exit with the Part sent on the state channel first, as
\* the cancelled exit does.
WorkerRequestErrorSendsState(i) ==
    /\ phase = "running" /\ wpc[i] = "start"
    /\ listener[i] # "fired"
    /\ errLeft > 0
    /\ errorChan < ChanOne
    /\ Len(stateChan) < ChanOne
    /\ stateChan' = Append(stateChan, ReportedPart(PartOf(i)))
    /\ errLeft' = errLeft - 1
    /\ errorChan' = errorChan + 1
    /\ runErrors' = runErrors + 1
    /\ wpc' = [wpc EXCEPT ![i] = "exited"]
    /\ UNCHANGED <<disk, resLen, ranged, sigLeft, session, doIdx, listener,
                   copied, signalChan, doneChan, fileChan,
                   interruptChan, coord, runSignals, joinCalls, removeCalls, probe>>

\* client.Do(req) fails with a transport error: errorChan <- err; return.
WorkerRequestError(i) ==
    /\ phase = "running" /\ wpc[i] = "start"
    /\ listener[i] # "fired"
    /\ errLeft > 0
    /\ errorChan < ChanOne
    /\ errLeft' = errLeft - 1
    /\ errorChan' = errorChan + 1
    /\ runErrors' = runErrors + 1
    /\ wpc' = [wpc EXCEPT ![i] = "exited"]
    /\ UNCHANGED <<disk, resLen, ranged, sigLeft, session, doIdx, listener,
                   copied, signalChan, doneChan, fileChan, stateChan,
                   interruptChan, coord, runSignals, joinCalls, removeCalls, probe>>

\* copyContent: io.Copy appends the next byte of the body to the part file.
WorkerCopyByte(i) ==
    /\ phase = "running" /\ wpc[i] = "copy"
    /\ copied[i] < Len(Body(i))
    /\ partData' = [partData EXCEPT ![PartOf(i).Path] = Append(@, Body(i)[copied[i] + 1])]
    /\ copied' = [copied EXCEPT ![i] = @ + 1]
    /\ UNCHANGED <<partExists, stateJson, taskDir, output, env, session, doIdx,
                   wpc, listener, chans, coord, hist, probe>>

\* The body's Read or the file's Write fails before the end of the body:
\* io.Copy returns the error, copyContent discards it and signals
\* finishDownloadChan like a finished copy; the worker sends its Part.
WorkerCopyError(i) ==
    /\ phase = "running" /\ wpc[i] = "copy"
    /\ copied[i] < Len(Body(i))
    /\ errLeft > 0
    /\ Len(stateChan) < ChanOne
    /\ errLeft' = errLeft - 1
    /\ runErrors' = runErrors + 1
    /\ stateChan' = Append(stateChan, ReportedPart(PartOf(i)))
    /\ wpc' = [wpc EXCEPT ![i] = "sendFile"]
    /\ UNCHANGED <<disk, resLen, ranged, sigLeft, session, doIdx, listener,
                   copied, signalChan, doneChan, fileChan, errorChan,
                   interruptChan, coord, runSignals, joinCalls, removeCalls, probe>>

\* The select's case <-finishDownloadChan (the body was copied to its end),
\* then stateSaveChan <- currentPart.
WorkerCopyFinished(i) ==
    /\ phase = "running" /\ wpc[i] = "copy"
    /\ copied[i] = Len(Body(i))
    /\ Len(stateChan) < ChanOne
    /\ stateChan' = Append(stateChan, ReportedPart(PartOf(i)))
    /\ wpc' = [wpc EXCEPT ![i] = "sendFile"]
    /\ UNCHANGED <<disk, env, session, doIdx, listener, copied, signalChan,
                   doneChan, fileChan, errorChan, interruptChan, coord, hist, probe>>

\* The select's case <-ctx.Done() (the body is closed, the copy goroutine
\* ends), then stateSaveChan <- currentPart.
WorkerCopyCancelled(i) ==
    /\ phase = "running" /\ wpc[i] = "copy"
    /\ listener[i] = "fired"
    /\ Len(stateChan) < ChanOne
    /\ stateChan' = Append(stateChan, ReportedPart(PartOf(i)))
    /\ wpc' = [wpc EXCEPT ![i] = "sendFile"]
    /\ UNCHANGED <<disk, env, session, doIdx, listener, copied, signalChan,
                   doneChan, fileChan, errorChan, interruptChan, coord, hist, probe>>

\* fileChan <- part.Path, then the deferred wg.Done().
WorkerSendFile(i) ==
    /\ phase = "running" /\ wpc[i] = "sendFile"
    /\ Len(fileChan) < conn
    /\ fileChan' = Append(fileChan, PartOf(i).Path)
    /\ wpc' = [wpc EXCEPT ![i] = "exited"]
    /\ UNCHANGED <<disk, env, session, doIdx, listener, copied, signalChan,
                   doneChan, errorChan, stateChan, interruptChan, coord, hist, probe>>

\* ------------------------------------------------------------- environment
\* A signal reaches the process: signal.Notify puts it into signalChan (and
\* drops it when the channel is full).
Signal ==
    /\ phase = "running"
    /\ sigLeft > 0 /\ signalChan < ChanOne
    /\ signalChan' = signalChan + 1
    /\ sigLeft' = sigLeft - 1
    /\ runSignals' = runSignals + 1
    /\ UNCHANGED <<disk, resLen, ranged, errLeft, session, doIdx, workers,
                   doneChan, fileChan, errorChan, stateChan, interruptChan,
                   coord, runErrors, joinCalls, removeCalls, probe>>

\* ------------------------------------------------------------- coordinator
\* case <-signalChan: isInterrupted = true, then the loop that pushes conn
\* tokens into interruptChan.
CoordSignal ==
    /\ phase = "running" /\ coordPc = "select"
    /\ signalChan > 0
    /\ signalChan' = signalChan - 1
    /\ isInterrupted' = TRUE
    /\ pushLeft' = conn
    /\ coordPc' = "pushing"
    /\ UNCHANGED <<disk, env, session, doIdx, workers, doneChan, fileChan,
                   errorChan, stateChan, interruptChan, files, parts, hist, probe>>

\* interruptChan <- true, one token; the send blocks while the buffer (of
\* capacity conn) is full.
CoordPush ==
    /\ phase = "running" /\ coordPc = "pushing"
    /\ interruptChan < conn
    /\ interruptChan' = interruptChan + 1
    /\ pushLeft' = pushLeft - 1
    /\ coordPc' = IF pushLeft = 1 THEN "select" ELSE "pushing"
    /\ UNCHANGED <<disk, env, session, doIdx, workers, signalChan, doneChan,
                   fileChan, errorChan, stateChan, isInterrupted, files, parts,
                   hist, probe>>

\* case file := <-fileChan
CoordFile ==
    /\ phase = "running" /\ coordPc = "select"
    /\ fileChan # << >>
    /\ files' = Append(files, Head(fileChan))
    /\ fileChan' = Tail(fileChan)
    /\ UNCHANGED <<disk, env, session, doIdx, workers, signalChan, doneChan,
                   errorChan, stateChan, interruptChan, coordPc, pushLeft,
                   isInterrupted, parts, hist, probe>>

\* case part := <-stateChan
CoordState ==
    /\ phase = "running" /\ coordPc = "select"
    /\ stateChan # << >>
    /\ parts' = Append(parts, Head(stateChan))
    /\ stateChan' = Tail(stateChan)
    /\ UNCHANGED <<disk, env, session, doIdx, workers, signalChan, doneChan,
                   fileChan, errorChan, interruptChan, coordPc, pushLeft,
                   isInterrupted, files, hist, probe>>

\* case err := <-errorChan: panic(err); the process ends.
CoordError ==
    /\ phase = "running" /\ coordPc = "select"
    /\ errorChan > 0
    /\ errorChan' = errorChan - 1
    /\ phase' = "panicked"
    /\ UNCHANGED <<disk, env, run, conn, downloader, planPar, doIdx, workers,
                   signalChan, doneChan, fileChan, stateChan, interruptChan,
                   coord, hist, probe>>

\* case <-doneChan, interrupted and resumable: Save() the collected parts.
CoordDoneSave ==
    /\ phase = "running" /\ coordPc = "select"
    /\ doneChan > 0
    /\ DoneBranch(isInterrupted, downloader.resumable) = "save"
    /\ doneChan' = doneChan - 1
    /\ LET sv == Save(parts, partExists, partData)
       IN  /\ taskDir' = TRUE
           /\ partExists' = sv.ex
           /\ partData' = sv.data
           /\ stateJson' = IF sv.ok
                           THEN [exists |-> TRUE,
                                 json |-> Marshal([URL |-> URL, Parts |-> parts])]
                           ELSE stateJson
    /\ phase' = "returned"
    /\ UNCHANGED <<output, env, run, conn, downloader, planPar, doIdx, workers,
                   signalChan, fileChan, errorChan, stateChan, interruptChan,
                   coord, hist, probe>>

\* case <-doneChan, interrupted and not resumable: a warning, nothing else.
CoordDoneSilent ==
    /\ phase = "running" /\ coordPc = "select"
    /\ doneChan > 0
    /\ DoneBranch(isInterrupted, downloader.resumable) = "silent"
    /\ doneChan' = doneChan - 1
    /\ phase' = "returned"
    /\ UNCHANGED <<disk, env, run, conn, downloader, planPar, doIdx, workers,
                   signalChan, fileChan, errorChan, stateChan, interruptChan,
                   coord, hist, probe>>

\* The disk after os.RemoveAll(FolderOf(url)).
RemoveAllEx == {}
RemoveAllData == [p \in AllPaths |-> << >>]

\* case <-doneChan, not interrupted: JoinFile, then RemoveAll of the task
\* directory; FatalCheck panics when the join fails.
CoordDoneJoin ==
    /\ phase = "running" /\ coordPc = "select"
    /\ doneChan > 0
    /\ DoneBranch(isInterrupted, downloader.resumable) = "join"
    /\ doneChan' = doneChan - 1
    /\ joinCalls' = joinCalls + 1
    /\ LET jf == JoinFile(files, partExists, partData)
       IN  /\ output' = [exists |-> TRUE, data |-> jf.out]
           /\ IF jf.ok
              THEN /\ taskDir' = FALSE
                   /\ partExists' = RemoveAllEx
                   /\ partData' = RemoveAllData
                   /\ stateJson' = NoState
                   /\ removeCalls' = removeCalls + 1
                   /\ phase' = "returned"
              ELSE /\ phase' = "panicked"
                   /\ UNCHANGED <<taskDir, partExists, partData, stateJson, removeCalls>>
    /\ UNCHANGED <<env, run, conn, downloader, planPar, doIdx, workers,
                   signalChan, fileChan, errorChan, stateChan, interruptChan,
                   coord, runSignals, runErrors, probe>>

\* ----------------------------------------------------------- specification
\* The steps of the program's own goroutines during a run.
ProgramStep ==
    \/ DoHandleCompleted \/ DoLaunch \/ DoDone
    \/ \E i \in Slots :
        \/ ListenerFire(i)
        \/ WorkerResponse(i) \/ WorkerRequestCancelled(i)
        \/ WorkerCopyByte(i) \/ WorkerCopyFinished(i) \/ WorkerCopyCancelled(i)
        \/ WorkerSendFile(i)
    \/ CoordSignal \/ CoordPush \/ CoordFile \/ CoordState \/ CoordError
    \/ CoordDoneSave \/ CoordDoneSilent \/ CoordDoneJoin

\* What the user, the operating system and the network do.
EnvStep ==
    \/ ExecuteFresh \/ MainResume \/ MainResumeMissing \/ Signal
    \/ \E i \in Slots : WorkerRequestError(i)

Next == ProgramStep \/ EnvStep

Spec == Init /\ [][Next]_vars

\* The Go scheduler runs every goroutine that can take a step, and the server
\* answers every request.
FairSpec == Spec /\ WF_vars(ProgramStep)

\* The engine on a network (or a disk) that can also fail in the middle of a
\* body.
FaultyNext == Next \/ \E i \in Slots : WorkerCopyError(i)

SpecFaulty == Init /\ [][FaultyNext]_vars

\* ---------------------------------------------------- the prober on its own
\* NewHTTPDownloader applied to every combination of probe responses and
\* every requested parallelism.
ProbeInit ==
    /\ resLen = 0 /\ ranged = FALSE
    /\ partExists = {} /\ partData = [p \in AllPaths |-> << >>]
    /\ stateJson = NoState /\ taskDir = FALSE
    /\ output = [exists |-> FALSE, data |-> << >>]
    /\ run = 0 /\ phase = "idle" /\ downloader = NoDownloader
    /\ planPar = 0 /\ doIdx = 1
    /\ wpc = [i \in Slots |-> "idle"]
    /\ listener = [i \in Slots |-> "none"]
    /\ copied = [i \in Slots |-> 0]
    /\ signalChan = 0 /\ doneChan = 0 /\ fileChan = << >> /\ errorChan = 0
    /\ stateChan = << >> /\ interruptChan = 0
    /\ coordPc = "select" /\ pushLeft = 0
    /\ isInterrupted = FALSE /\ files = << >> /\ parts = << >>
    /\ sigLeft = MaxSignals /\ errLeft = MaxErrors
    /\ runSignals = 0 /\ runErrors = 0 /\ joinCalls = 0 /\ removeCalls = 0
    /\ conn \in 1..MaxConn
    /\ probeIn \in ProbeResponses
    /\ probeOut = NoDownloader
    /\ planIn = NoPlanIn /\ planOut = << >>
    /\ stIn = ZeroState /\ stOut = NoRead
    /\ SideInit

Probe ==
    /\ phase = "idle"
    /\ probeOut' = NewHTTPDownloader(probeIn, conn)
    /\ phase' = "probed"
    /\ UNCHANGED <<disk, env, run, conn, downloader, planPar, doIdx, workers,
                   chans, coord, hist, probeIn, planIn, planOut, stIn, stOut,
                   side>>

ProbeNext == Probe

SpecProbe == ProbeInit /\ [][ProbeNext]_vars

\* --------------------------------------------------- the planner on its own
\* partCalculate applied to every parallelism and every length.
PlanInit ==
    /\ resLen = 0 /\ ranged = FALSE
    /\ partExists = {} /\ partData = [p \in AllPaths |-> << >>]
    /\ stateJson = NoState /\ taskDir = FALSE
    /\ output = [exists |-> FALSE, data |-> << >>]
    /\ run = 0 /\ phase = "idle" /\ conn = 0 /\ downloader = NoDownloader
    /\ planPar = 0 /\ doIdx = 1
    /\ wpc = [i \in Slots |-> "idle"]
    /\ listener = [i \in Slots |-> "none"]
    /\ copied = [i \in Slots |-> 0]
    /\ signalChan = 0 /\ doneChan = 0 /\ fileChan = << >> /\ errorChan = 0
    /\ stateChan = << >> /\ interruptChan = 0
    /\ coordPc = "select" /\ pushLeft = 0
    /\ isInterrupted = FALSE /\ files = << >> /\ parts = << >>
    /\ sigLeft = MaxSignals /\ errLeft = MaxErrors
    /\ runSignals = 0 /\ runErrors = 0 /\ joinCalls = 0 /\ removeCalls = 0
    /\ probeIn = NoProbe /\ probeOut = NoDownloader
    /\ planIn \in [par : 1..MaxPar, len : 1..MaxPlanLen]
    /\ planOut = << >>
    /\ stIn = ZeroState /\ stOut = NoRead
    /\ SideInit

Plan ==
    /\ phase = "idle"
    /\ planOut' = partCalculate(planIn.par, planIn.len)
    /\ taskDir' = TRUE      \* MkdirIfNotExist(folder)
    /\ phase' = "planned"
    /\ UNCHANGED <<partExists, partData, stateJson, output, env, run, conn,
                   downloader, planPar, doIdx, workers, chans, coord, hist,
                   probeIn, probeOut, planIn, stIn, stOut, side>>

PlanNext == Plan

SpecPlan == PlanInit /\ [][PlanNext]_vars

\* ----------------------------------------------- the state store on its own
\* Save and Read applied to States as a run hands them to Save: parts named
\* after the task, lying in the task directory or in the working directory,
\* some of them on disk.
\* The URL's last path element, written with these units; PercentFF is the
\* escape %FF.
PercentFF == 37255
URLUnits == {97, 38, PercentFF}

RECURSIVE StringsUpTo(_)
StringsUpTo(n) ==
    IF n = 0
    THEN {<< >>}
    ELSE StringsUpTo(n - 1)
            \cup {Append(str, u) : str \in StringsUpTo(n - 1), u \in URLUnits}

URLs == StringsUpTo(MaxStr) \ {<< >>}

\* The units '/', '.' and '\', and the escape %2E of a dot.
Slash == 47
Dot == 46
Backslash == 92
Percent2E == 3746
DotDot == <<Dot, Dot>>

\* url.Parse(urlStr).Path: the path with its escapes decoded; %FF becomes the
\* byte 0xFF.  A URL is written as its escaped path: one that starts with a
\* slash is the path of http://host/..., the empty one is that of
\* http://host, any other is a bare task name.
Unescape(url) ==
    [k \in 1..Len(url) |->
        IF url[k] = PercentFF THEN InvalidByte
        ELSE IF url[k] = Percent2E THEN Dot
        ELSE url[k]]

\* strings.Contains(str, sub)
Contains(str, sub) ==
    \E i \in 1..(Len(str) - Len(sub) + 1) : SubSeq(str, i, i + Len(sub) - 1) = sub

\* strings.Split(str, "/") from position i on, cur being the element begun.
RECURSIVE SplitFrom(_, _, _)
SplitFrom(str, i, cur) ==
    IF i > Len(str)
    THEN <<cur>>
    ELSE IF str[i] = Slash
         THEN <<cur>> \o SplitFrom(str, i + 1, << >>)
         ELSE SplitFrom(str, i + 1, Append(cur, str[i]))

Split(str) == SplitFrom(str, 1, << >>)

\* The elements of a path: what lies between its slashes.
Elems(str) == SelectSeq(Split(str), LAMBDA e : e # << >>)

\* strings.Join(es, "/")
RECURSIVE JoinElems(_)
JoinElems(es) ==
    IF es = << >>
    THEN << >>
    ELSE IF Len(es) = 1
         THEN es[1]
         ELSE es[1] \o <<Slash>> \o JoinElems(Tail(es))

\* filepath.Clean's pass over the elements es[i..], out being what is kept:
\* empty elements and "." are dropped, ".." removes the element before it,
\* is dropped at the root and is kept at the start of a relative path.
RECURSIVE CleanElems(_, _, _, _)
CleanElems(es, i, rooted, out) ==
    IF i > Len(es)
    THEN out
    ELSE IF es[i] = << >> \/ es[i] = <<Dot>>
         THEN CleanElems(es, i + 1, rooted, out)
         ELSE IF es[i] = DotDot
              THEN IF out # << >> /\ out[Len(out)] # DotDot
                   THEN CleanElems(es, i + 1, rooted, SubSeq(out, 1, Len(out) - 1))
                   ELSE IF rooted
                        THEN CleanElems(es, i + 1, rooted, out)
                        ELSE CleanElems(es, i + 1, rooted, Append(out, es[i]))
              ELSE CleanElems(es, i + 1, rooted, Append(out, es[i]))

\* filepath.Clean(str)
Clean(str) ==
    IF str = << >>
    THEN <<Dot>>
    ELSE LET rooted == str[1] = Slash
             es == CleanElems(Split(str), 1, rooted, << >>)
         IN  IF rooted
             THEN <<Slash>> \o JoinElems(es)
             ELSE IF es = << >> THEN <<Dot>> ELSE JoinElems(es)

\* strings.TrimRight(str, cutset)
RECURSIVE TrimRight(_, _)
TrimRight(str, cutset) ==
    IF str # << >> /\ str[Len(str)] \in cutset
    THEN TrimRight(SubSeq(str, 1, Len(str) - 1), cutset)
    ELSE str

\* filepath.Base(str)
Base(str) ==
    IF str = << >>
    THEN <<Dot>>
    ELSE LET t == TrimRight(str, {Slash})
         IN  IF t = << >> THEN <<Slash>> ELSE Split(t)[Len(Split(t))]

\* TaskFromURL: the last element of the URL's cleaned path.
TaskFromURL(url) ==
    Base(TrimRight(Clean(Unescape(url)), {Slash, Backslash}))

\* A part's file name: fmt.Sprintf("%s.part%06d", file, j).
PartName(url, j) == TaskFromURL(url) \o Pad6(j)

PartChoices == [dir : {Folder, "cwd"}, from : {0, 10}, to : {-1, 21}]

StatesOf(url, n) ==
    {[URL |-> url,
      Parts |-> [i \in 1..n |->
                   [Index |-> i - 1, URL |-> url,
                    Path |-> [dir |-> c[i].dir, base |-> PartName(url, i - 1)],
                    RangeFrom |-> c[i].from, RangeTo |-> c[i].to]]]
        : c \in [1..n -> PartChoices]}

StateInputs == UNION {StatesOf(url, n) : url \in URLs, n \in 0..MaxParts}

PathsOf(st) == {st.Parts[i].Path : i \in 1..Len(st.Parts)}

StateInit ==
    /\ resLen = 0 /\ ranged = FALSE
    /\ stIn \in StateInputs
    /\ partExists \in SUBSET PathsOf(stIn)
    /\ partData = [q \in PathsOf(stIn) \cup {RenameTarget(q) : q \in PathsOf(stIn)}
                       |-> << >>]
    /\ stateJson = NoState /\ taskDir = FALSE
    /\ output = [exists |-> FALSE, data |-> << >>]
    /\ run = 0 /\ phase = "idle" /\ conn = 0 /\ downloader = NoDownloader
    /\ planPar = 0 /\ doIdx = 1
    /\ wpc = [i \in Slots |-> "idle"]
    /\ listener = [i \in Slots |-> "none"]
    /\ copied = [i \in Slots |-> 0]
    /\ signalChan = 0 /\ doneChan = 0 /\ fileChan = << >> /\ errorChan = 0
    /\ stateChan = << >> /\ interruptChan = 0
    /\ coordPc = "select" /\ pushLeft = 0
    /\ isInterrupted = FALSE /\ files = << >> /\ parts = << >>
    /\ sigLeft = MaxSignals /\ errLeft = MaxErrors
    /\ runSignals = 0 /\ runErrors = 0 /\ joinCalls = 0 /\ removeCalls = 0
    /\ probeIn = NoProbe /\ probeOut = NoDownloader
    /\ planIn = NoPlanIn /\ planOut = << >>
    /\ stOut = NoRead
    /\ SideInit

\* s.Save() for the State stIn.
SaveStep ==
    /\ phase = "idle"
    /\ LET sv == Save(stIn.Parts, partExists, partData)
       IN  /\ taskDir' = TRUE
           /\ partExists' = sv.ex
           /\ partData' = sv.data
           /\ stateJson' = IF sv.ok
                           THEN [exists |-> TRUE, json |-> Marshal(stIn)]
                           ELSE stateJson
           /\ phase' = IF sv.ok THEN "saved" ELSE "saveFailed"
    /\ UNCHANGED <<output, env, run, conn, downloader, planPar, doIdx, workers,
                   chans, coord, hist, probe>>

\* Read(stIn.URL), before or after the Save.
ReadStep ==
    /\ phase \in {"idle", "saved", "saveFailed"}
    /\ stOut' = Read(stateJson)
    /\ phase' = "read"
    /\ UNCHANGED <<disk, env, run, conn, downloader, planPar, doIdx, workers,
                   chans, coord, hist, probeIn, probeOut, planIn, planOut, stIn,
                   side>>

StateNext == SaveStep \/ ReadStep

SpecState == StateInit /\ [][StateNext]_vars

\* ---------------------------------------------------- the joiner on its own
\* JoinFile applied, as Execute's done case applies it, to every list of up
\* to MaxJoinFiles part files of one plan, in every order, with all the files
\* on disk or one of them missing.
\* The engine's variables while one of its functions is exercised alone.
EngineIdle ==
    /\ resLen = 0 /\ ranged = FALSE
    /\ stateJson = NoState /\ taskDir = FALSE
    /\ output = [exists |-> FALSE, data |-> << >>]
    /\ run = 0 /\ phase = "idle" /\ conn = 0 /\ downloader = NoDownloader
    /\ planPar = 0 /\ doIdx = 1
    /\ wpc = [i \in Slots |-> "idle"]
    /\ listener = [i \in Slots |-> "none"]
    /\ copied = [i \in Slots |-> 0]
    /\ signalChan = 0 /\ doneChan = 0 /\ fileChan = << >> /\ errorChan = 0
    /\ stateChan = << >> /\ interruptChan = 0
    /\ coordPc = "select" /\ pushLeft = 0
    /\ isInterrupted = FALSE /\ files = << >> /\ parts = << >>
    /\ sigLeft = MaxSignals /\ errLeft = MaxErrors
    /\ runSignals = 0 /\ runErrors = 0 /\ joinCalls = 0 /\ removeCalls = 0
    /\ probeIn = NoProbe /\ probeOut = NoDownloader
    /\ planIn = NoPlanIn /\ planOut = << >>
    /\ stIn = ZeroState /\ stOut = NoRead

\* A plan of one-byte parts, and the part files of its finished download.
JoinPlan == partCalculate(MaxJoinIdx + 1, MaxJoinIdx + 1)
JoinPaths == {JoinPlan[i].Path : i \in 1..Len(JoinPlan)}
JoinData ==
    [p \in JoinPaths |->
        LET part == CHOOSE q \in {JoinPlan[i] : i \in 1..Len(JoinPlan)} : q.Path = p
        IN  Slice(part.RangeFrom, Min(part.RangeTo, Len(JoinPlan) - 1))]

\* The lists of distinct paths the file channel can deliver.
JoinLists ==
    UNION {{f \in [1..n -> JoinPaths] :
                \A i, j \in 1..n : i # j => f[i] # f[j]} : n \in 0..MaxJoinFiles}

JoinInit ==
    /\ EngineIdle
    /\ joinIn \in JoinLists
    /\ partExists \in {JoinPaths} \cup {JoinPaths \ {p} : p \in JoinPaths}
    /\ partData = JoinData
    /\ joinOut = NoJoin
    /\ folderIn = << >> /\ folderOut = NoFolder /\ taskOut = << >>
    /\ dirs = {}
    /\ limiter = NoLimiter /\ readers = [w \in Readers |-> NoReader]
    /\ delivered = 0
    /\ cfgIn = NoSettings /\ cfgOut = NoConfig

\* err := JoinFile(files, TaskFromURL(url)) without the FatalCheck(err).
JoinIgnoreError ==
    /\ phase = "idle"
    /\ joinOut' = JoinFile(joinIn, partExists, partData)
    /\ output' = [exists |-> TRUE, data |-> joinOut'.out]
    /\ phase' = "joined"
    /\ UNCHANGED <<partExists, partData, stateJson, taskDir, env, run, conn,
                   downloader, planPar, doIdx, workers, chans, coord, hist,
                   probeIn, probeOut, planIn, planOut, stIn, stOut, joinIn,
                   folderIn, folderOut, taskOut, dirs, limiter, readers,
                   delivered, cfgIn, cfgOut>>

\* err := JoinFile(files, TaskFromURL(url)); FatalCheck(err)
Join ==
    /\ phase = "idle"
    /\ joinOut' = JoinFile(joinIn, partExists, partData)
    /\ output' = [exists |-> TRUE, data |-> joinOut'.out]
    /\ phase' = IF joinOut'.ok THEN "joined" ELSE "joinFailed"
    /\ UNCHANGED <<partExists, partData, stateJson, taskDir, env, run, conn,
                   downloader, planPar, doIdx, workers, chans, coord, hist,
                   probeIn, probeOut, planIn, planOut, stIn, stOut, joinIn,
                   folderIn, folderOut, taskOut, dirs, limiter, readers,
                   delivered, cfgIn, cfgOut>>

JoinNext == Join

SpecJoin == JoinInit /\ [][JoinNext]_vars

\* ---------------------------------------------------- the naming on its own
\* FolderOf and TaskFromURL applied to every escaped path of up to MaxPath
\* units, and the directories made and removed under the names they return.
\* usr.HomeDir and dataFolder (a dot directory, written with its slash).
HomeDir == <<Slash, 104>>
DataFolder == <<Dot, 104, Slash>>

\* filepath.Join(a, b, c) of three non-empty elements.
FilepathJoin(a, b, c) == Clean(a \o <<Slash>> \o b \o <<Slash>> \o c)

\* safePath := filepath.Join(homeDir, dataFolder)
SafePath == Clean(HomeDir \o <<Slash>> \o DataFolder)

\* The number of leading elements two element lists share.
CommonPrefix(a, b) ==
    CHOOSE n \in 0..Min(Len(a), Len(b)) :
        /\ \A k \in 1..n : a[k] = b[k]
        /\ (n < Min(Len(a), Len(b)) => a[n + 1] # b[n + 1])

\* filepath.Rel(basepath, targpath) of two cleaned absolute paths: one ".."
\* for every element of basepath below the common prefix, then the rest of
\* targpath; "." when the paths are equal.
Rel(basepath, targpath) ==
    LET b == Elems(basepath)
        t == Elems(targpath)
        n == CommonPrefix(b, t)
        up == [k \in 1..(Len(b) - n) |-> DotDot]
        es == up \o SubSeq(t, n + 1, Len(t))
    IN  IF es = << >> THEN <<Dot>> ELSE JoinElems(es)

\* FolderOf without the check of the parsed path.
FolderOfNoRawCheck(url) ==
    LET cleanPath == TaskFromURL(url)
        fullQualifyPath == FilepathJoin(HomeDir, DataFolder, cleanPath)
        relative == Rel(SafePath, fullQualifyPath)
    IN  IF Contains(relative, DotDot)
        THEN NoFolder
        ELSE [ok |-> TRUE, path |-> fullQualifyPath]

\* FolderOf(urlStr): [ok, path]; ok is FALSE when FatalCheck panics.
FolderOf(url) ==
    LET cleanPath == TaskFromURL(url)
        fullQualifyPath == FilepathJoin(HomeDir, DataFolder, cleanPath)
        relative == Rel(SafePath, fullQualifyPath)
    IN  IF Contains(Unescape(url), DotDot)
        THEN NoFolder
        ELSE IF Contains(relative, DotDot)
             THEN NoFolder
             ELSE [ok |-> TRUE, path |-> fullQualifyPath]

\* Whether directory d is dir itself or lies below it.
Within(d, dir) ==
    /\ Len(Elems(d)) >= Len(Elems(dir))
    /\ SubSeq(Elems(d), 1, Len(Elems(dir))) = Elems(dir)

PathUnits == {Slash, Dot, 97, Percent2E}

RECURSIVE PathsUpTo(_)
PathsUpTo(n) ==
    IF n = 0
    THEN {<< >>}
    ELSE PathsUpTo(n - 1)
            \cup {Append(str, u) : str \in PathsUpTo(n - 1), u \in PathUnits}

\* The data root exists and holds the directories of other tasks.
FolderInit ==
    /\ EngineIdle
    /\ partExists = {} /\ partData = [p \in AllPaths |-> << >>]
    /\ joinIn = << >> /\ joinOut = NoJoin
    /\ folderIn \in PathsUpTo(MaxPath)
    /\ folderOut = NoFolder /\ taskOut = << >>
    /\ dirs = {SafePath}
    /\ limiter = NoLimiter /\ readers = [w \in Readers |-> NoReader]
    /\ delivered = 0
    /\ cfgIn = NoSettings /\ cfgOut = NoConfig

\* partCalculate: file := TaskFromURL(url); folder := FolderOf(url);
\* MkdirIfNotExist(folder).
FolderStep ==
    /\ phase = "idle"
    /\ taskOut' = TaskFromURL(folderIn)
    /\ folderOut' = FolderOf(folderIn)
    /\ IF folderOut'.ok
       THEN /\ dirs' = dirs \cup {folderOut'.path}
            /\ phase' = "folder"
       ELSE /\ dirs' = dirs
            /\ phase' = "panicked"
    /\ UNCHANGED <<disk, env, run, conn, downloader, planPar, doIdx, workers,
                   chans, coord, hist, probeIn, probeOut, planIn, planOut,
                   stIn, stOut, joinIn, joinOut, folderIn, limiter, readers,
                   delivered, cfgIn, cfgOut>>

\* Read: taskName := TaskFromURL(task), no FolderOf.
TaskStep ==
    /\ phase = "idle"
    /\ taskOut' = TaskFromURL(folderIn)
    /\ phase' = "named"
    /\ UNCHANGED <<disk, env, run, conn, downloader, planPar, doIdx, workers,
                   chans, coord, hist, probeIn, probeOut, planIn, planOut,
                   stIn, stOut, joinIn, joinOut, folderIn, folderOut, dirs,
                   limiter, readers, delivered, cfgIn, cfgOut>>

\* Execute after the join: os.RemoveAll(FolderOf(url)).
RemoveStep ==
    /\ phase = "folder"
    /\ dirs' = {d \in dirs : ~Within(d, FolderOf(folderIn).path)}
    /\ phase' = "removed"
    /\ UNCHANGED <<disk, env, run, conn, downloader, planPar, doIdx, workers,
                   chans, coord, hist, probeIn, probeOut, planIn, planOut,
                   stIn, stOut, joinIn, joinOut, folderIn, folderOut, taskOut,
                   limiter, readers, delivered, cfgIn, cfgOut>>

FolderNext == FolderStep \/ TaskStep \/ RemoveStep

SpecFolder == FolderInit /\ [][FolderNext]_vars

\* --------------------------------------------------- the limiter on its own
\* The workers' rateLimitedReaders sharing the limiter of one downloader.
\* rate.NewLimiter(rate.Limit(ret.rate), int(ret.rate)): the burst is the
\* rate and the bucket starts full.
NewLimiter(r) == [burst |-> r, tokens |-> r, granted |-> 0]

RateInit ==
    /\ EngineIdle
    /\ partExists = {} /\ partData = [p \in AllPaths |-> << >>]
    /\ joinIn = << >> /\ joinOut = NoJoin
    /\ folderIn = << >> /\ folderOut = NoFolder /\ taskOut = << >>
    /\ dirs = {}
    /\ \E r \in 1..MaxBurst : limiter = NewLimiter(r)
    /\ readers = [w \in Readers |-> [pc |-> "read", n |-> 0, left |-> MaxBody]]
    /\ delivered = 0
    /\ cfgIn = NoSettings /\ cfgOut = NoConfig

\* n, err := rlr.r.Read(p) with n > 0: the body hands over its next n bytes.
RateRead(w) ==
    /\ readers[w].pc = "read" /\ readers[w].left > 0
    /\ \E n \in 1..Min(readers[w].left, MaxRead) :
        readers' = [readers EXCEPT ![w] = [pc |-> "wait", n |-> n, left |-> @.left - n]]
    /\ UNCHANGED <<disk, env, session, doIdx, workers, chans, coord, hist,
                   probeIn, probeOut, planIn, planOut, stIn, stOut, joinIn,
                   joinOut, folderIn, folderOut, taskOut, dirs, limiter,
                   delivered, cfgIn, cfgOut>>

\* The reader's position after Read has returned: the next read, or the end
\* of the body.
AfterRead(rd) == [pc |-> IF rd.left > 0 THEN "read" ELSE "done", n |-> 0, left |-> rd.left]

\* lim.WaitN(ctx, n) with n within the burst: it returns once n tokens are
\* there and takes them; Read then returns n.
RateWaitGranted(w) ==
    /\ readers[w].pc = "wait"
    /\ readers[w].n <= limiter.burst
    /\ limiter.tokens >= readers[w].n
    /\ limiter' = [limiter EXCEPT !.tokens = @ - readers[w].n,
                                  !.granted = @ + readers[w].n]
    /\ delivered' = delivered + readers[w].n
    /\ readers' = [readers EXCEPT ![w] = AfterRead(@)]
    /\ UNCHANGED <<disk, env, session, doIdx, workers, chans, coord, hist,
                   probeIn, probeOut, planIn, planOut, stIn, stOut, joinIn,
                   joinOut, folderIn, folderOut, taskOut, dirs, cfgIn, cfgOut>>

\* lim.WaitN(ctx, n) with n above the burst: it returns an error at once and
\* takes no token; the error is discarded and Read returns n.
RateWaitRefused(w) ==
    /\ readers[w].pc = "wait"
    /\ readers[w].n > limiter.burst
    /\ delivered' = delivered + readers[w].n
    /\ readers' = [readers EXCEPT ![w] = AfterRead(@)]
    /\ UNCHANGED <<disk, env, session, doIdx, workers, chans, coord, hist,
                   probeIn, probeOut, planIn, planOut, stIn, stOut, joinIn,
                   joinOut, folderIn, folderOut, taskOut, dirs, limiter,
                   cfgIn, cfgOut>>

\* Time passes: the bucket gains a token, up to the burst.
RateTick ==
    /\ limiter.tokens < limiter.burst
    /\ limiter' = [limiter EXCEPT !.tokens = @ + 1]
    /\ UNCHANGED <<disk, env, session, doIdx, workers, chans, coord, hist,
                   probeIn, probeOut, planIn, planOut, stIn, stOut, joinIn,
                   joinOut, folderIn, folderOut, taskOut, dirs, readers,
                   delivered, cfgIn, cfgOut>>

RateNext ==
    \/ \E w \in Readers : RateRead(w) \/ RateWaitGranted(w) \/ RateWaitRefused(w)
    \/ RateTick

SpecRate == RateInit /\ [][RateNext]_vars

\* ---------------------------------------------------------------- settings
\* Execute(url, state, conn, skiptls, proxy, bwLimit) up to a worker's
\* request and copy, for a fresh and for a resumed run.  rate is bwLimit as
\* units.ParseStrictBytes reads it, 0 for an empty or unreadable limit; len
\* is the resource's length, par the number of parts.
MaxRate == 1
Proxies == {NoProxy, "socks"}

Settings ==
    [resumed : BOOLEAN, rate : 0..MaxRate, proxy : Proxies, skipTLS : BOOLEAN,
     par : 1..MaxPar, len : 1..MaxLen]

\* The settings fields of the HTTPDownloader Execute hands to Do: the ones
\* NewHTTPDownloader fills in on a fresh run; on a resumed run the struct
\* literal sets url, file, par, parts and resumable and leaves the rest zero.
ExecuteDownloader(in) ==
    IF in.resumed
    THEN [par |-> in.par, len |-> 0, rate |-> 0, limited |-> FALSE,
          proxy |-> NoProxy, skipTLS |-> FALSE]
    ELSE [par |-> in.par, len |-> in.len, rate |-> in.rate, limited |-> in.rate > 0,
          proxy |-> in.proxy, skipTLS |-> in.skipTLS]

\* The client a worker sends its request with.
ProxyAwareHTTPClient(proxy, skipTLS) == [proxy |-> proxy, skipTLS |-> skipTLS]

\* The reader copyContent hands to io.Copy.
copyContent(d) ==
    IF d.limited THEN "rateLimitedReader"
    ELSE IF d.rate # 0 THEN "shapeio" ELSE "plain"

ConfigInit ==
    /\ resLen = 0 /\ ranged = FALSE
    /\ partExists = {} /\ partData = [p \in AllPaths |-> << >>]
    /\ stateJson = NoState /\ taskDir = FALSE
    /\ output = [exists |-> FALSE, data |-> << >>]
    /\ run = 0 /\ phase = "idle" /\ conn = 0 /\ downloader = NoDownloader
    /\ planPar = 0 /\ doIdx = 1
    /\ wpc = [i \in Slots |-> "idle"]
    /\ listener = [i \in Slots |-> "none"]
    /\ copied = [i \in Slots |-> 0]
    /\ signalChan = 0 /\ doneChan = 0 /\ fileChan = << >> /\ errorChan = 0
    /\ stateChan = << >> /\ interruptChan = 0
    /\ coordPc = "select" /\ pushLeft = 0
    /\ isInterrupted = FALSE /\ files = << >> /\ parts = << >>
    /\ sigLeft = MaxSignals /\ errLeft = MaxErrors
    /\ runSignals = 0 /\ runErrors = 0 /\ joinCalls = 0 /\ removeCalls = 0
    /\ probeIn = NoProbe /\ probeOut = NoDownloader
    /\ planIn = NoPlanIn /\ planOut = << >>
    /\ stIn = ZeroState /\ stOut = NoRead
    /\ joinIn = << >> /\ joinOut = NoJoin
    /\ folderIn = << >> /\ folderOut = NoFolder /\ taskOut = << >>
    /\ dirs = {}
    /\ limiter = NoLimiter /\ readers = [w \in Readers |-> NoReader]
    /\ delivered = 0
    /\ cfgIn \in Settings
    /\ cfgOut = NoConfig

ConfigFrame ==
    UNCHANGED <<disk, env, run, conn, downloader, planPar, doIdx, workers, chans,
                coord, hist, probeIn, probeOut, planIn, planOut, stIn, stOut,
                joinIn, joinOut, folderIn, folderOut, taskOut, dirs, limiter,
                readers, delivered, cfgIn>>

\* Execute builds the downloader.
ConfigExecute ==
    /\ phase = "idle"
    /\ cfgOut' = [cfgOut EXCEPT !.d = ExecuteDownloader(cfgIn)]
    /\ phase' = "configured"
    /\ ConfigFrame

\* downloadPart for one part of the plan: the request and the client.
ConfigRequest ==
    /\ phase = "configured"
    /\ \E k \in 1..cfgIn.par :
        cfgOut' = [cfgOut EXCEPT
            !.part = k,
            !.range = buildRequestForPart(cfgOut.d, partCalculate(cfgIn.par, cfgIn.len)[k]),
            !.client = ProxyAwareHTTPClient(cfgOut.d.proxy, cfgOut.d.skipTLS)]
    /\ phase' = "requested"
    /\ ConfigFrame

\* downloadPart starts copyContent on the response body.
ConfigCopy ==
    /\ phase = "requested"
    /\ cfgOut' = [cfgOut EXCEPT !.mode = copyContent(cfgOut.d)]
    /\ phase' = "copying"
    /\ ConfigFrame

ConfigNext == ConfigExecute \/ ConfigRequest \/ ConfigCopy

SpecConfig == ConfigInit /\ [][ConfigNext]_vars

\* ================================================================== claims
\* Size of a part's file on disk (0 when it does not exist).
FileSize(path) == IF path \in partExists THEN Len(partData[path]) ELSE 0

\* No signal was delivered and no worker met an error in the current run.
CleanRun == runSignals = 0 /\ runErrors = 0

\* C1: a fresh download of a resource of length L >= 1 with parallelism
\* N >= 1 that finishes without a signal or a worker error leaves an output
\* file equal to the resource.
C1_FreshOutputIsResource ==
    (run = 1 /\ phase = "returned" /\ CleanRun)
        => (output.exists /\ output.data = Content(resLen))

\* C2: an interrupted resumable download that is resumed and then runs to
\* completion leaves an output file equal to the resource.
C2_ResumedOutputIsResource ==
    (run >= 2 /\ phase = "returned" /\ CleanRun /\ errLeft = MaxErrors)
        => (output.exists /\ output.data = Content(resLen))

\* C3: after any number of interrupt/Save/Resume rounds, the range_from that
\* Resume hands to a part's worker is the part's planned start plus the size
\* of its part file, capped at the part's end.
C3_ResumeOffsetIsPlannedPlusSize ==
    (run >= 2 /\ phase = "running" /\ doIdx = 1 /\ errLeft = MaxErrors)
        => \A i \in 1..NParts :
              LET p == PartOf(i)
                  planned == partCalculate(planPar, resLen)[p.Index + 1]
              IN  p.RangeFrom = Min(planned.RangeFrom + FileSize(p.Path), p.RangeTo)

\* C4: once the coordinator has observed a signal, JoinFile is not called in
\* that run and the final output file is not created.
C4_NoJoinAfterSignal ==
    isInterrupted => (joinCalls = 0 /\ ~output.exists)

\* C4's case: a run that saw a signal handled its done event, with part
\* files already reported on the file channel.
C4_Witness ==
    /\ phase = "returned" /\ isInterrupted
    /\ files # << >>

\* C5: when Execute returns after a signal on a resumable task, state.json
\* exists, whatever stage each worker had reached.
C5_InterruptedRunSavesState ==
    (phase = "returned" /\ isInterrupted /\ downloader.resumable)
        => stateJson.exists

\* C6: after a signal the run never gets stuck: while Execute has not
\* returned, some goroutine of the program can take a step (the coordinator
\* is not blocked for ever on interruptChan, nor the workers on their
\* channels).
C6_SignalledRunNeverBlocks ==
    (phase = "running" /\ isInterrupted) => ENABLED ProgramStep

\* C7: a run with no signal and no worker error eventually returns, having
\* called JoinFile exactly once and removed the task directory; the output
\* file then exists and the task directory does not.
C7Returned ==
    /\ phase = "returned"
    /\ joinCalls = 1 /\ removeCalls = 1
    /\ output.exists /\ ~taskDir

C7_CleanRunJoinsAndRemoves ==
    (phase = "running") ~> (C7Returned \/ ~CleanRun)

\* C7's case: a clean run has returned after its join.
C7_Witness ==
    /\ C7Returned /\ CleanRun
    /\ files # << >>

\* C8: if a worker reports an error on the error channel, Execute ends with
\* that error: it does not return normally, does not call JoinFile and does
\* not remove the task directory.
C8_ErrorStopsRun ==
    runErrors > 0 => (phase # "returned" /\ joinCalls = 0 /\ removeCalls = 0)

\* C9: the prober yields parallelism 1 when range support is not confirmed;
\* parallelism 1, length 1 and resumable = false when no positive length was
\* learned; otherwise the requested parallelism, the learned length and
\* resumable = true.
C9_ProberFallbacks ==
    phase = "probed" =>
        /\ ~ProbedRange(probeIn) => probeOut.par = 1
        /\ ProbedLen(probeIn) = 0 =>
              (probeOut.par = 1 /\ probeOut.len = 1 /\ ~probeOut.resumable)
        /\ (ProbedRange(probeIn) /\ ProbedLen(probeIn) > 0) =>
              /\ probeOut.par = conn
              /\ probeOut.len = ProbedLen(probeIn)
              /\ probeOut.resumable

\* C9's case: HEAD advertised ranges but no probe gave a length, and more
\* than one connection was asked for.
C9_Witness ==
    /\ phase = "probed" /\ conn > 1
    /\ ProbedRange(probeIn) /\ ProbedLen(probeIn) = 0
    /\ probeOut.par = 1

\* C10: for a task that is not resumable, state.json is never written,
\* whether the run completes or is interrupted.
C10_NonResumableNeverSaves ==
    (run >= 1 /\ ~downloader.resumable) => ~stateJson.exists

\* C10's case: a non-resumable run was interrupted and has returned, its
\* worker's part already reported.
C10_Witness ==
    /\ phase = "returned" /\ isInterrupted
    /\ ~downloader.resumable
    /\ parts # << >>

\* C11: when HEAD carries no Accept-Ranges header but the GET with
\* Range: bytes=0-0 returns 206 with Content-Range ending in /T, T > 0, the
\* prober reports range support and the length T and keeps the requested
\* parallelism N, so the parts' requests carry a Range header.
C11_RangeFallbackKeepsParallelism ==
    (/\ phase = "probed"
     /\ probeIn.headOK /\ ~probeIn.headAR
     /\ probeIn.getOK /\ probeIn.get206 /\ probeIn.crTotal > 0)
        => /\ probeOut.par = conn
           /\ probeOut.len = probeIn.crTotal
           /\ probeOut.resumable
           /\ Len(probeOut.parts) = conn
           /\ conn > 1 =>
                 \A i \in 1..conn :
                     buildRequestForPart(probeOut, probeOut.parts[i]).kind # "none"

\* C11's case: HEAD gave neither Accept-Ranges nor a length, the range GET
\* gave 206 and a total, and more than one connection was asked for.
C11_Witness ==
    /\ phase = "probed" /\ conn > 1
    /\ probeIn.headOK /\ ~probeIn.headAR /\ probeIn.headCL = 0
    /\ probeIn.getOK /\ probeIn.get206 /\ probeIn.crTotal > 1
    /\ probeOut.par = conn

\* C12: a transport error on the HEAD request or on the range GET probe
\* aborts probing: no plan is produced.
C12_ProbeErrorAborts ==
    (/\ phase = "probed"
     /\ ~probeIn.headOK \/ (NeedsGetProbe(probeIn) /\ ~probeIn.getOK))
        => probeOut.parts = << >>

\* C13: partCalculate(N, L, url) returns exactly N parts with Index 0..N-1 in
\* order, URL = url, RangeFrom = (L/N)*i, RangeTo = (L/N)*(i+1)-1 for i < N-1
\* and RangeTo = L for the last part.
C13_PlanShape ==
    phase = "planned" =>
        /\ Len(planOut) = planIn.par
        /\ \A k \in 1..Len(planOut) :
              /\ planOut[k].Index = k - 1
              /\ planOut[k].URL = URL
              /\ planOut[k].RangeFrom = (planIn.len \div planIn.par) * (k - 1)
              /\ k < planIn.par =>
                    planOut[k].RangeTo = (planIn.len \div planIn.par) * k - 1
              /\ k = planIn.par => planOut[k].RangeTo = planIn.len

\* C13's case: a plan of several parts for a length that is not a multiple
\* of their number.
C13_Witness ==
    /\ phase = "planned" /\ planIn.par > 2
    /\ planIn.len % planIn.par # 0
    /\ Len(planOut) = planIn.par

\* The last byte a planned part names, the last part's sentinel L read as
\* "through byte L - 1".
PlanLastByte(k) ==
    IF k = Len(planOut) THEN planIn.len - 1 ELSE planOut[k].RangeTo

\* The bytes a planned part names.
PlanBytes(k) ==
    {b \in -1..planIn.len : planOut[k].RangeFrom <= b /\ b <= PlanLastByte(k)}

\* C14: the parts of a plan cover [0, L) exactly once, with no gap and no
\* overlap; every part but the last has size L/N and the last has size
\* L - (L/N)*(N-1).
C14_PlanCoversOnce ==
    phase = "planned" =>
        /\ \A b \in 0..(planIn.len - 1) :
              Cardinality({k \in 1..Len(planOut) : b \in PlanBytes(k)}) = 1
        /\ \A k \in 1..Len(planOut) :
              /\ PlanBytes(k) \subseteq 0..(planIn.len - 1)
              /\ k < Len(planOut) =>
                    PlanLastByte(k) - planOut[k].RangeFrom + 1
                        = planIn.len \div planIn.par
              /\ k = Len(planOut) =>
                    PlanLastByte(k) - planOut[k].RangeFrom + 1
                        = planIn.len - (planIn.len \div planIn.par) * (planIn.par - 1)

\* C14's case: a plan with more parts than bytes, whose intermediate parts
\* are empty.
C14_Witness ==
    /\ phase = "planned"
    /\ planIn.par > planIn.len
    /\ PlanBytes(Len(planOut)) = 0..(planIn.len - 1)

\* C15: every part request a worker builds, in fresh and in resumed runs,
\* has no Range header with parallelism 1; with parallelism > 1 it has
\* bytes=<range_from>-<range_to> when range_to differs from the total length
\* and the open-ended bytes=<range_from>- when range_to equals it.
C15_RangeHeaderForm ==
    \A i \in Slots :
        (phase = "running" /\ i <= NParts /\ wpc[i] # "idle") =>
            LET p == PartOf(i)
                req == buildRequestForPart(downloader, p)
            IN  IF NParts = 1
                THEN req = NoRange
                ELSE IF p.RangeTo # resLen
                     THEN req = [kind |-> "closed", from |-> p.RangeFrom,
                                 to |-> p.RangeTo]
                     ELSE req = [kind |-> "open", from |-> p.RangeFrom, to |-> 0]

\* The manifest on disk, as Read returns it.
Manifest ==
    [exists |-> stateJson.exists,
     URL |-> Read(stateJson).state.URL, Parts |-> Read(stateJson).state.Parts]

\* A resumed run that has not yet started a worker: the downloader holds
\* what Resume returned, and the disk is as Resume saw it.
JustResumed == run >= 2 /\ phase = "running" /\ doIdx = 1

\* C16 as amended: Resume sets each part's range_from to
\* min(range_from + s, range_to), s being the size of the part's file and
\* range_to the stored value for every part, the sentinel last part included;
\* a part whose file is absent keeps its range_from, and range_to, index, url
\* and path are never changed.
C16_ResumeCapsAtRangeTo ==
    JustResumed =>
        /\ NParts = Len(Manifest.Parts)
        /\ \A i \in 1..NParts :
              LET p == PartOf(i)
                  q == Manifest.Parts[i]
              IN  /\ p.RangeFrom =
                        IF q.Path \in partExists
                        THEN Min(q.RangeFrom + FileSize(q.Path), q.RangeTo)
                        ELSE q.RangeFrom
                  /\ p.RangeTo = q.RangeTo /\ p.Index = q.Index
                  /\ p.URL = q.URL /\ p.Path = q.Path

\* C16's case: the last part's file already holds the part's last byte.
C16_Witness ==
    /\ JustResumed
    /\ \E i \in 1..NParts :
          /\ PartOf(i).Index = planPar - 1
          /\ FileSize(PartOf(i).Path) > 0
          /\ Manifest.Parts[i].RangeFrom + FileSize(PartOf(i).Path) = resLen
          /\ PartOf(i).RangeFrom = resLen

\* C16 as stated: the cap is range_to for intermediate parts and
\* total_length - 1 for the sentinel last part.
C16_ResumeCapsAtEffectiveEnd ==
    JustResumed =>
        \A i \in 1..NParts :
            LET p == PartOf(i)
                q == Manifest.Parts[i]
                effective == IF q.Index = planPar - 1 THEN resLen - 1 ELSE q.RangeTo
            IN  /\ p.RangeFrom =
                      IF q.Path \in partExists
                      THEN Min(q.RangeFrom + FileSize(q.Path), effective)
                      ELSE q.RangeFrom
                /\ p.RangeTo = q.RangeTo /\ p.Index = q.Index
                /\ p.URL = q.URL /\ p.Path = q.Path

\* C20: every manifest Execute persists on interrupt lists exactly one entry
\* for each part index 0..N-1 of the plan, in increasing index order (runs
\* in which no worker met an error).
C20_ManifestListsEveryPartInOrder ==
    (Manifest.exists /\ errLeft = MaxErrors) =>
        /\ Len(Manifest.Parts) = planPar
        /\ \A i \in 1..Len(Manifest.Parts) : Manifest.Parts[i].Index = i - 1

\* C19: Read and Resume for a task whose state.json is absent return an
\* error and no State; no download is started and nothing is written to
\* disk.
C19_ResumeWithoutManifestFails ==
    [][((MainResume \/ MainResumeMissing) /\ ~stateJson.exists) =>
          /\ ~Read(stateJson).ok /\ Read(stateJson).state = ZeroState
          /\ phase' = "resumeFailed"
          /\ UNCHANGED <<disk, run, downloader, doIdx, workers, chans>>]_vars

\* C19's case: after a run of the task, a resume found no state.json.
C19_Witness ==
    /\ phase = "resumeFailed" /\ run >= 1
    /\ ~stateJson.exists

\* C17: Save followed by Read of the same task round-trips the manifest:
\* Read returns a State whose URL and whose parts' Index, URL, Path,
\* RangeFrom and RangeTo equal those of the State saved, in the same order.
C17_SaveReadRoundTrip ==
    (phase = "read" /\ stateJson.exists) => (stOut.ok /\ stOut.state = stIn)

\* C18: after a successful Save the task directory exists and contains
\* state.json, and every part file of the State is at
\* <task directory>/<base name of its Path> and no longer at a former
\* location outside the task directory.
C18_SaveMovesParts ==
    phase = "saved" =>
        /\ taskDir /\ stateJson.exists
        /\ \A i \in 1..Len(stIn.Parts) :
              LET path == stIn.Parts[i].Path
              IN  /\ [dir |-> Folder, base |-> path.base] \in partExists
                  /\ path.dir # Folder => path \notin partExists

\* C18's case: a State of several parts was saved, one of them from outside
\* the task directory and one from inside it.
C18_Witness ==
    /\ phase = "saved" /\ Len(stIn.Parts) >= 2
    /\ \E i, k \in 1..Len(stIn.Parts) :
          stIn.Parts[i].Path.dir = "cwd" /\ stIn.Parts[k].Path.dir = Folder

\* The bytes of the listed files of the plan, taken in the order of their
\* part indexes, from the part at position j on.
RECURSIVE InIndexOrder(_, _)
InIndexOrder(listed, j) ==
    IF j > Len(JoinPlan)
    THEN << >>
    ELSE (IF JoinPlan[j].Path \in listed THEN partData[JoinPlan[j].Path] ELSE << >>)
            \o InIndexOrder(listed, j + 1)

\* C21: JoinFile writes the concatenation of its sources in the sorted order
\* of their paths, whatever the order of the list; for part files named by
\* the planner that is the order of the part indexes.
C21_JoinInIndexOrder ==
    phase = "joined"
        => output.data = InIndexOrder({joinIn[i] : i \in 1..Len(joinIn)}, 1)

\* A list that names part 10 before part 9 was joined.
C21_Witness ==
    /\ phase = "joined" /\ Len(joinIn) >= 2
    /\ joinIn[1] = JoinPlan[11].Path /\ joinIn[2] = JoinPlan[10].Path
    /\ output.data = <<9, 10>> \o InIndexOrder({joinIn[i] : i \in 3..Len(joinIn)}, 1)

\* C22: if a source of the list cannot be opened, JoinFile returns an error
\* and the join fails; it does not report success with a shorter output.
C22_JoinFailsOnMissingSource ==
    (phase \in {"joined", "joinFailed"}
        /\ \E i \in 1..Len(joinIn) : joinIn[i] \notin partExists)
        => (~joinOut.ok /\ phase = "joinFailed")

\* The second of two sources is missing; the first one's bytes were written.
C22_Witness ==
    /\ phase = "joinFailed" /\ Len(joinIn) = 2
    /\ joinIn[1] \in partExists /\ joinIn[2] \notin partExists
    /\ output.exists /\ Len(output.data) < Len(partData[joinIn[1]]) + Len(partData[joinIn[2]])

\* C23: for every URL whose path contains "..", FolderOf fails with the
\* directory-traversal error and no directory is created.
C23_DotDotPathFails ==
    (phase \in {"folder", "panicked", "removed"} /\ Contains(Unescape(folderIn), DotDot))
        => (phase = "panicked" /\ ~folderOut.ok /\ dirs = {SafePath})

\* FolderOf was called with the path /.. and with a path whose ".." is
\* written with escapes.
C23_Witness ==
    /\ phase = "panicked"
    /\ folderIn \in {<<Slash, Dot, Dot>>, <<Slash, Percent2E, Percent2E>>}

\* C24: whenever FolderOf returns, the returned path is a strict descendant
\* of the data root, for every URL, those with an empty path or the path "/"
\* included; so the directory Execute removes is never the data root.
C24_FolderBelowDataRoot ==
    (phase \in {"folder", "removed"})
        => /\ Within(folderOut.path, SafePath)
           /\ folderOut.path # SafePath
           /\ SafePath \in dirs

\* C25: TaskFromURL never returns a value that contains a path separator or
\* the substring "..", for a URL or for a bare task name.
C25_TaskNameHasNoDotDot ==
    (phase = "named")
        => (~Contains(taskOut, <<Slash>>) /\ ~Contains(taskOut, DotDot))

\* The last byte of the resource a part covers, and whether none of its bytes
\* is left to fetch.
PartLastByte(part) == Min(part.RangeTo, resLen - 1)
NothingLeft(part) == part.RangeFrom > PartLastByte(part)

\* C26: for a part that has nothing left to download, handleCompletedPart
\* sends the part's Path on the file channel and a Part with the same Index,
\* URL, Path, RangeFrom and RangeTo on the state channel.
C26_CompletedPartSendsPathAndState ==
    [][(DoHandleCompleted /\ NothingLeft(PartOf(doIdx)))
        => /\ fileChan' = Append(fileChan, PartOf(doIdx).Path)
           /\ stateChan' = Append(stateChan, PartOf(doIdx))]_vars

\* C27: with a shared limiter, every successful read of n bytes by any worker
\* acquires n tokens from it before the worker's next read, whatever n is
\* (above the burst too): the bytes delivered by all the workers together
\* never exceed the tokens the limiter has granted.
C27_DeliveredWithinGranted ==
    limiter.burst > 0 => delivered <= limiter.granted

\* The workers Do launches in the current run.
LaunchedWorkers == {i \in 1..NParts : ~IsCompletedPart(PartOf(i))}

\* C28: when the coordinator handles a signal, the number of tokens it pushes
\* is at least the number of launched workers, so that every running worker
\* observes the cancellation; in fresh runs and in resumed runs, whose
\* manifest may hold a number of parts that differs from conn.
C28_TokensCoverWorkers ==
    [][CoordSignal => pushLeft' >= Cardinality(LaunchedWorkers)]_vars

\* C29: at the moment the coordinator calls JoinFile, its file list holds
\* the path of every part of the plan exactly once, and every message the
\* workers sent on the file and state channels has been received.
C29_JoinSeesEveryPart ==
    [][(CoordDoneJoin /\ CleanRun)
        => /\ \A i \in 1..NParts :
                Cardinality({k \in 1..Len(files) : files[k] = PartOf(i).Path}) = 1
           /\ fileChan = << >> /\ stateChan = << >>]_vars

\* C30: Do skips a part only if the part has no byte left to fetch; a part
\* with at least one byte of its inclusive range (up to the last byte of the
\* resource for the last part) outstanding gets a worker.
C30_SkipOnlyWhenNothingLeft ==
    [][DoHandleCompleted => NothingLeft(PartOf(doIdx))]_vars

\* C31: a failure while a part's body is streamed (a read error of the
\* network or a write error of the part file) is sent on the error channel,
\* and the worker does not go on to emit the part's file path.
C31_BodyFailureIsPartError ==
    [][\A i \in Slots :
        WorkerCopyError(i) => (errorChan' = errorChan + 1 /\ wpc'[i] = "exited")]_vars

\* The Part of worker i with the bytes it wrote in this run added to its
\* range_from.
UpdatedPart(i) == [PartOf(i) EXCEPT !.RangeFrom = @ + copied[i]]

\* C32: on normal completion a worker emits, on the state channel, a Part
\* whose range_from is the part's range_from at the start of the run plus the
\* number of bytes the worker wrote in this run, and its file path on the
\* file channel.
C32_CompletionReportsBytesWritten ==
    [][\A i \in Slots :
        WorkerCopyFinished(i)
            => /\ stateChan' = Append(stateChan, UpdatedPart(i))
               /\ wpc'[i] = "sendFile"]_vars

\* C33: a worker that is cancelled, before the response arrives or in the
\* middle of the body, emits its updated Part on the state channel once the
\* copy goroutine has ended, and emits nothing on the file channel.
C33_CancelledWorkerSendsNoPath ==
    [][\A i \in Slots :
        (WorkerRequestCancelled(i) \/ WorkerCopyCancelled(i))
            => /\ stateChan' = Append(stateChan, UpdatedPart(i))
               /\ wpc'[i] = "exited"]_vars

\* What Do does with a part it takes as complete: one state-channel update
\* with the part's fields, no path, no worker (and so no request).
ShortCircuited ==
    /\ stateChan' = Append(stateChan, PartOf(doIdx))
    /\ fileChan' = fileChan
    /\ wpc' = wpc /\ listener' = listener

C35_PartRangesOrdered ==
    phase = "planned" =>
        \A k \in 1..Len(planOut) :
            /\ 0 <= planOut[k].RangeFrom
            /\ k < Len(planOut) => planOut[k].RangeFrom <= planOut[k].RangeTo
            /\ k = Len(planOut) => planOut[k].RangeFrom <= planIn.len

\* C36: a downloader is marked resumable only if the probes established both
\* a known content length and range support.
C36_ResumableNeedsLengthAndRange ==
    (phase = "probed" /\ probeOut.resumable)
        => (ProbedLen(probeIn) > 0 /\ ProbedRange(probeIn))

\* C37: every byte a worker appends to its part file is the resource byte at
\* offset (the part's range_from at the start of the run + the bytes the
\* worker has appended so far in the run), for every parallelism.
C37_AppendedByteAtOffset ==
    [][\A i \in Slots : WorkerCopyByte(i)
            => /\ PartOf(i).RangeFrom + copied[i] < resLen
               /\ partData'[PartOf(i).Path]
                    = Append(partData[PartOf(i).Path],
                             Content(resLen)[PartOf(i).RangeFrom + copied[i] + 1])]_vars

\* C38: the bandwidth limit, proxy and TLS-skip given to Execute and the
\* resource's length govern a worker's request and copy alike in a fresh and
\* in a resumed run: with a limit set the body goes through the limiter, the
\* client has the configured proxy and TLS setting, and the Range header is
\* the one built from the resource's length.
C38_SettingsGovernWorkers ==
    phase = "copying" =>
        /\ cfgIn.rate > 0 => cfgOut.mode = "rateLimitedReader"
        /\ cfgOut.client = ProxyAwareHTTPClient(cfgIn.proxy, cfgIn.skipTLS)
        /\ cfgOut.range
             = buildRequestForPart([par |-> cfgIn.par, len |-> cfgIn.len],
                                   partCalculate(cfgIn.par, cfgIn.len)[cfgOut.part])

\* The state-channel updates of the run so far: those the coordinator has
\* appended to parts and the one still in the channel.
Updates == parts \o stateChan

\* C39: in every run each part of the plan produces at most one
\* state-channel update, so no two updates (in the coordinator's parts list
\* or in the channel) have the same Index; a worker that ends by reporting an
\* error on the error channel has produced none.
C39_OneUpdatePerPart ==
    [][/\ \A a, b \in 1..Len(Updates') : Updates'[a].Index = Updates'[b].Index => a = b
       /\ \A i \in Slots : WorkerRequestError(i)
            => \A a \in 1..Len(Updates') : Updates'[a].Index # PartOf(i).Index]_vars

C39_Witness ==
    /\ phase = "running" /\ NParts = 2
    /\ Len(parts) = 2 /\ parts[1].Index # parts[2].Index
    /\ wpc[1] = "exited" /\ wpc[2] = "exited"

\* The State that Read returns for state.json as it is on disk.
SavedState == Read(stateJson).state

\* C40: Resume changes nothing on disk, neither state.json nor a part file;
\* the State it returns is the manifest with only range_from adjusted; and a
\* second Resume right after it returns an equal State.
C40_ResumeLeavesDisk ==
    [][/\ MainResumeMissing => UNCHANGED disk
       /\ MainResume =>
            /\ UNCHANGED disk
            /\ Len(downloader'.parts) = Len(SavedState.Parts)
            /\ \A k \in 1..Len(SavedState.Parts) :
                    [downloader'.parts[k] EXCEPT !.RangeFrom = SavedState.Parts[k].RangeFrom]
                        = SavedState.Parts[k]
            /\ Resume(Read(stateJson').state, partExists', partData').Parts
                    = downloader'.parts]_vars

C40_Witness ==
    /\ run >= 2 /\ phase = "running" /\ doIdx = 1
    /\ \A i \in Slots : wpc[i] = "idle"
    /\ stateJson.exists
    /\ \E k \in 1..NParts : PartOf(k).RangeFrom > SavedState.Parts[k].RangeFrom
====
